---- MODULE Spec2Model ----
(***************************************************************************)
(* Model of the scanning engine of PortScanner: scan_ips (PortScanner.py,  *)
(* and its localized copy "PortScanner - ES.py"), run on its own thread,   *)
(* together with the other context that sets the stop event.               *)
(*                                                                         *)
(* A dotted-decimal address string is a sequence of octet fields, each a   *)
(* sequence of decimal digits: "0.0.1.0" is <<<<0>>,<<0>>,<<1>>,<<0>>>>.   *)
(***************************************************************************)
EXTENDS Integers, Sequences, FiniteSets, TLC

\* ------------------------------------------------------------------ bounds
\* lowest address of the modelled address universe (0.0.0.255: the next
\* address, 0.0.1.0, carries into the third octet)
BaseAddr == 255
\* the address universe is BaseAddr .. BaseAddr + AddrSpan
AddrSpan == 1
\* the port universe is the PortSpan highest valid ports and the first
\* invalid one
PortSpan == 2

\* in a behaviour with a rerun the port universe is the PairPortSpan
\* highest valid ports and the first invalid one
PairPortSpan == 1

\* highest port number the socket layer accepts
MAX_PORT == 65535

\* ------------------------------------------------- address conversions
\* value of a digit field, most significant digit first
RECURSIVE DigitsVal(_)
DigitsVal(d) ==
    IF d = <<>> THEN 0
    ELSE DigitsVal(SubSeq(d, 1, Len(d) - 1)) * 10 + d[Len(d)]

\* decimal digits of a natural number, without leading zeros
RECURSIVE ToDigits(_)
ToDigits(n) ==
    IF n < 10 THEN <<n>> ELSE Append(ToDigits(n \div 10), n % 10)

\* ipaddress: an octet field has 1..3 digits, no leading zero unless it
\* is the single digit 0, and a value of at most 255
ValidOctet(d) ==
    /\ Len(d) \in 1..3
    /\ (Len(d) > 1 => d[1] # 0)
    /\ DigitsVal(d) <= 255

\* ipaddress.ip_address(s) returns an address (does not raise ValueError)
IsAddress(s) ==
    /\ Len(s) = 4
    /\ \A i \in 1..4 : ValidOctet(s[i])

\* Python integers are unbounded and the address counter of scan_ips
\* takes the values 1 .. 2^32, while TLC evaluates integers in 32 bits
\* with a sign. An address integer v is therefore kept as
\* v - 2^31 - 1: the values 1 .. 2^32 are -2^31 .. 2^31 - 1. Order, sums
\* with small numbers and differences are those of v; the address
\* 0.0.0.0 (v = 0) is not among the modelled inputs.
FromNat(v) == (v - 2147483647) - 2

\* the text of 255.255.255.255
LastIp == << <<2, 5, 5>>, <<2, 5, 5>>, <<2, 5, 5>>, <<2, 5, 5>> >>

\* str(ipaddress.ip_address(2^32)): the value does not fit an IPv4Address
\* and ip_address returns the IPv6Address ::1:0:0
Ipv6Text == << <<>>, <<>>, <<1>>, <<0>>, <<0>> >>

\* int(ipaddress.ip_address(s))
AddrInt(s) ==
    ((((DigitsVal(s[1]) - 128) * 256 + DigitsVal(s[2])) * 256
          + DigitsVal(s[3])) * 256 + DigitsVal(s[4])) - 1

\* int(ipaddress.ip_address("255.255.255.255")) = 2^32 - 1
LastAddr == AddrInt(LastIp)

\* str(ipaddress.ip_address(n)) for 1 <= n <= 2^32
AddrStr(n) ==
    IF n > LastAddr THEN Ipv6Text
    ELSE LET v == n + 1
         IN  << ToDigits((v \div 16777216) + 128),
                ToDigits((v \div 65536) % 256),
                ToDigits((v \div 256) % 256),
                ToDigits(v % 256) >>

\* --------------------------------------------------------------- inputs
\* an address string the GUI validation accepts and ipaddress rejects
\* ("0.0.0.01")
Malformed == << <<0>>, <<0>>, <<0>>, <<0, 1>> >>

IPInputs ==
    { AddrStr(FromNat(BaseAddr + i)) : i \in 0..AddrSpan } \cup { Malformed }

\* the last addresses of the IPv4 range
TopInputs == { AddrStr(LastAddr - i) : i \in 0..AddrSpan }

PortInputs == (MAX_PORT - PortSpan + 1) .. (MAX_PORT + 1)

PairPortInputs == (MAX_PORT - PairPortSpan + 1) .. (MAX_PORT + 1)

VARIABLES
    start_ip, end_ip, start_port, end_port, verbose,  \* arguments of scan_ips
    stop_event,        \* threading.Event shared with the initiator
    pc,                \* position of the scan thread in scan_ips
    start, end,        \* int(start), int(end)
    open_ports,        \* the accumulated results
    current_ip_int, ip_address, port,
    sock,              \* "none", "open" or "closed": the local socket object
    result,            \* value returned by connect_ex
    log,               \* the lines passed to log_callback, in order
    delivered,         \* the lists passed to result_callback, in order
    probes,            \* history: the classified probes, in order
    resources,         \* history: number of sockets created and not closed
    created,           \* history: number of sockets created
    stop_at_start,     \* history: stop_event was set when scan_ips began
    started_after_set, \* history: probes started since stop_event was set
    exit,              \* history: the path on which the run ended
    fixed,             \* the environment is fixed: a pair answers every
                       \* probe the way it answered the first one
    env,               \* the responses a fixed environment has given
    run,               \* number of the current invocation of scan_ips
    prev,              \* history: what the previous invocation did
    tkq,               \* the callbacks root.after has queued, oldest first
    log_area,          \* the lines shown in the log widget, top first
    last_scan_results, \* PortScannerGUI.last_scan_results
    button,            \* text and state of scan_button
    stop_req,          \* history: the run in which toggle_scan last set
                       \* the event (0: never)
    requested,         \* history: the work the user has asked for, see Cost
    file,              \* what save_results_to_csv last wrote
    copy,              \* the copy of the program that is running
    faulty,            \* the callbacks given to scan_ips may raise
    alive,             \* number of scan threads started and not yet ended
    ctx                \* history: the thread that last wrote
                       \* last_scan_results, the log area, the button

vars == << start_ip, end_ip, start_port, end_port, verbose, stop_event, pc,
           start, end, open_ports, current_ip_int, ip_address, port, sock,
           result, log, delivered, probes, resources, created, stop_at_start,
           started_after_set, exit, fixed, env, run, prev, tkq, log_area,
           last_scan_results, button, stop_req, requested, file, copy,
           faulty, alive, ctx >>

args == << start_ip, end_ip, start_port, end_port, verbose >>
locals == << start, end, open_ports, current_ip_int, ip_address, port, sock,
             result >>
hist == << probes, resources, created, started_after_set >>
outer == << fixed, env, run, prev >>
\* what only the main thread writes
main == << log_area, button, stop_req, requested >>
gui == << tkq, last_scan_results, main >>
extra == << file, copy, faulty, alive, ctx >>

\* the two copies of the program
English == "src/PortScanner.py"
Spanish == "src/unnamed/part_000"
Copies == { English, Spanish }

\* the file save_results_to_csv writes: calls counts the calls, n the
\* files written, header and rows are the content of the last one
NoFile == [calls |-> 0, n |-> 0, header |-> << >>, rows |-> << >>]

\* writer.writerow(["IP", "Port"]) in the one copy, ["IP", "Puerto"] in
\* the other
HeaderRow(c) == IF c = English THEN << "IP", "Port" >> ELSE << "IP", "Puerto" >>

\* the row csv.writer writes for a result: the address string and str(port)
CsvRow(r) == << r[1], ToDigits(r[2]) >>

\* writer.writerows(results)
CsvRows(results) == [i \in 1..Len(results) |-> CsvRow(results[i])]

\* every widget and last_scan_results were last written by the main thread
AllMain == [results |-> "main", log_area |-> "main", button |-> "main"]

\* ---------------------------------------------------- the GUI's inputs
\* the port fields hold the last GuiPortSpan ports and the first number
\* that is not a port
GuiPortSpan == 2
\* the user asks for at most MaxRequested units of work, see Cost
MaxRequested == 3

\* an empty entry field
Blank == <<>>
\* "0.0.0.256"
OutOfRange == << <<0>>, <<0>>, <<0>>, <<2, 5, 6>> >>

IPFields == IPInputs \cup { OutOfRange }
PortFields == { ToDigits(p) : p \in (MAX_PORT - GuiPortSpan + 1) .. (MAX_PORT + 1) }

\* what the user has typed when the button is clicked; the end fields may
\* be left empty
Entries == [start_ip : IPFields, end_ip : IPFields \cup { Blank },
            start_port : PortFields, end_port : PortFields \cup { Blank }]

\* ------------------------------------------------------ the GUI's lines
BannerLine == [kind |-> "banner"]
StartingLine == [kind |-> "starting"]
InvalidLine(what) == [kind |-> "invalid", what |-> what]
FoundLine == [kind |-> "found"]
ResultLine(r) == [kind |-> "result", ip |-> r[1], port |-> r[2]]
NoneLine == [kind |-> "none"]
DurationLine == [kind |-> "duration"]
NoResultsLine == [kind |-> "no_results"]
SavedLine == [kind |-> "saved"]
SaveErrorLine == [kind |-> "save_error"]

\* a callback queued by root.after(0, ...); r is the run that was current
\* when it was queued
LogCall(msg, r) == [fn |-> "_log_message_safe", msg |-> msg, run |-> r]
RestoreCall(r) == [fn |-> "restore", run |-> r]

StartButton == [text |-> "Start Scan", state |-> "normal"]
StopButton == [text |-> "Stop Scan", state |-> "normal"]
StoppingButton == [text |-> "Stopping...", state |-> "disabled"]


\* start_new_scan handing the Event of the previous scan to the new thread
Mut_NewEvent == stop_event

\* self.stop_event = threading.Event(): a new event, not set
NewEvent == FALSE

\* the locals of a frame of scan_ips that has not run yet
NewFrame ==
    /\ start = 0
    /\ end = 0
    /\ open_ports = <<>>
    /\ current_ip_int = 0
    /\ ip_address = <<>>
    /\ port = 0
    /\ sock = "none"
    /\ result = 0

\* the state of everything but the arguments when the scan thread has been
\* created and has not yet run
Fresh ==
    /\ stop_event = FALSE
    /\ pc = "setup"
    /\ NewFrame
    /\ log = <<>>
    /\ delivered = <<>>
    /\ probes = <<>>
    /\ resources = 0
    /\ created = 0
    /\ stop_at_start = FALSE
    /\ started_after_set = 0
    /\ exit = "none"
    /\ env = [sock |-> <<>>, conn |-> <<>>]
    /\ run = 1
    /\ prev = <<>>
    /\ tkq = << LogCall(StartingLine, 1) >>
    /\ log_area = <<>>
    /\ last_scan_results = <<>>
    /\ button = StopButton
    /\ stop_req = 0
    /\ requested = 0
    /\ file = NoFile
    /\ copy = English
    /\ alive = 1
    /\ ctx = AllMain

\* copy c of the application after PortScannerGUI.__init__: no scan thread
\* yet, the log area shows the local addresses
AppInit(c) ==
    /\ start_ip = Blank
    /\ end_ip = Blank
    /\ start_port = 0
    /\ end_port = 0
    /\ verbose = FALSE
    /\ stop_event = FALSE
    /\ pc = "idle"
    /\ NewFrame
    /\ log = <<>>
    /\ delivered = <<>>
    /\ probes = <<>>
    /\ resources = 0
    /\ created = 0
    /\ stop_at_start = FALSE
    /\ started_after_set = 0
    /\ exit = "none"
    /\ fixed = FALSE
    /\ env = [sock |-> <<>>, conn |-> <<>>]
    /\ run = 0
    /\ prev = <<>>
    /\ tkq = <<>>
    /\ log_area = << LogCall(BannerLine, 0) >>
    /\ last_scan_results = <<>>
    /\ button = StartButton
    /\ stop_req = 0
    /\ requested = 0
    /\ file = NoFile
    /\ copy = c
    /\ faulty = FALSE
    /\ alive = 0
    /\ ctx = AllMain

GuiInit == AppInit(English)

\* either copy of the application
ExportInit == \E c \in Copies : AppInit(c)

\* one invocation of scan_ips with any arguments
Init ==
    /\ start_ip \in IPInputs
    /\ end_ip \in IPInputs
    /\ start_port \in PortInputs
    /\ end_port \in PortInputs
    /\ verbose \in BOOLEAN
    /\ fixed = FALSE
    /\ faulty = FALSE
    /\ Fresh

\* one invocation of scan_ips with any arguments and with callbacks that
\* may raise
RaiseInit ==
    /\ start_ip \in IPInputs
    /\ end_ip \in IPInputs
    /\ start_port \in PortInputs
    /\ end_port \in PortInputs
    /\ verbose \in BOOLEAN
    /\ fixed = FALSE
    /\ faulty = TRUE
    /\ Fresh

\* one invocation of scan_ips for addresses at the end of the IPv4 range
TopInit ==
    /\ start_ip \in TopInputs
    /\ end_ip \in TopInputs
    /\ start_port \in PortInputs
    /\ end_port \in PortInputs
    /\ verbose \in BOOLEAN
    /\ fixed = FALSE
    /\ faulty = FALSE
    /\ Fresh

\* the first of two invocations against a fixed environment
PairInit ==
    /\ start_ip \in IPInputs
    /\ end_ip \in IPInputs
    /\ start_port \in PairPortInputs
    /\ end_port \in PairPortInputs
    /\ verbose \in BOOLEAN
    /\ fixed = TRUE
    /\ faulty = FALSE
    /\ Fresh


\* the usage check off by one: start = end + 1 is let through
Mut_RangeReversed(s, e) == s > e + 1


\* is_valid_ip_address: four dot-separated fields of one to three digits
\* (the regular expression), each of value 0..255
is_valid_ip_address(ip) ==
    /\ Len(ip) = 4
    /\ \A i \in 1..4 : Len(ip[i]) \in 1..3
    /\ \A i \in 1..4 : 0 <= DigitsVal(ip[i]) /\ DigitsVal(ip[i]) <= 255


\* is_valid_port with the upper limit off by one
Mut_is_valid_port(field) ==
    /\ field # Blank
    /\ \A i \in 1..Len(field) : field[i] \in 0..9
    /\ 0 <= DigitsVal(field)
    /\ DigitsVal(field) <= MAX_PORT + 1

\* is_valid_port of an entry field: int(port) succeeds and is a port
is_valid_port(field) ==
    /\ field # Blank
    /\ \A i \in 1..Len(field) : field[i] \in 0..9
    /\ 0 <= DigitsVal(field)
    /\ DigitsVal(field) <= MAX_PORT

\* x.get().strip() or y
OrElse(x, y) == IF x = Blank THEN y ELSE x

\* the end address and the end port start_new_scan uses
EndIp(e) == OrElse(e.end_ip, e.start_ip)
EndPort(e) == OrElse(e.end_port, e.start_port)

\* the first check of start_new_scan that fails, "none" when all pass
Rejection(e) ==
    IF ~is_valid_ip_address(e.start_ip) THEN "start_ip"
    ELSE IF ~is_valid_ip_address(EndIp(e)) THEN "end_ip"
    ELSE IF ~is_valid_port(e.start_port) THEN "start_port"
    ELSE IF ~is_valid_port(EndPort(e)) THEN "end_port"
    ELSE IF DigitsVal(e.start_port) > DigitsVal(EndPort(e)) THEN "order"
    ELSE "none"

\* the number of address-port pairs in the ranges of the entries e
Pairs(e) ==
    IF ~IsAddress(e.start_ip) \/ ~IsAddress(EndIp(e))
       \/ AddrInt(e.start_ip) > AddrInt(EndIp(e))
    THEN 0
    ELSE (AddrInt(EndIp(e)) - AddrInt(e.start_ip) + 1)
         * (DigitsVal(EndPort(e)) - DigitsVal(e.start_port) + 1)

\* the work a click on the button asks for: one unit for the click, one
\* for the thread if one is started, and one for each pair after the first
Cost(e) ==
    IF Rejection(e) # "none" THEN 1
    ELSE IF Pairs(e) = 0 THEN 2
    ELSE 1 + Pairs(e)

\* lines 359-381 of start_new_scan for the fields e and the verbose box
\* v: the check that fails, or the arguments of the scan thread
Checked(e, v) ==
    [rejection |-> Rejection(e),
     cost |-> Cost(e),
     args |-> IF Rejection(e) # "none" THEN << >>
              ELSE << e.start_ip, EndIp(e), DigitsVal(e.start_port),
                      DigitsVal(EndPort(e)), v >>]

\* what start_new_scan can make of the clicks that cost at most n
Clicks == [n \in 0..MaxRequested |->
              { Checked(e, v) : e \in { x \in Entries : Cost(x) <= n },
                                v \in BOOLEAN }]

\* ------------------------------------------------------------- helpers
\* the start > end test of the usage check
RangeReversed(s, e) == s > e


\* is_set with the test inverted
Mut_is_set(ev) == ~ev

\* stop_event.is_set()
is_set(ev) == ev

\* a while condition that admits one more address
Mut_MoreAddresses(cur, e) == cur <= e + 1

\* the while condition: current_ip_int <= int(end)
MoreAddresses(cur, e) == cur <= e

\* the port iterator of range(start_port, end_port + 1) is not exhausted
MorePorts(p, e) == p < e + 1

\* a port iterator that skips every second port
Mut_NextPort(p) == p + 2

\* the port the iterator yields after p
NextPort(p) == p + 1

\* connect_ex raises OverflowError for a port outside 0..65535
PortAccepted(p) == p \in 0..MAX_PORT


\* the outcomes socket.socket() can have for pair k (TRUE: a socket is
\* returned, FALSE: OSError): the one already seen for k, else either
SocketResponses(e, k) ==
    IF k \in DOMAIN e.sock THEN { e.sock[k] } ELSE BOOLEAN

\* error indicators connect_ex returns: EAGAIN (timed out), ECONNREFUSED
Errnos == {11, 111}

\* the values connect_ex can return for pair k: the one already seen for
\* k, else 0 or an errno
ConnectResponses(e, k) ==
    IF k \in DOMAIN e.conn THEN { e.conn[k] } ELSE {0} \cup Errnos


\* only a refused connection (ECONNREFUSED) is taken as a failure
Mut_Succeeded(r) == r # 111


\* the test result == 0
Succeeded(r) == r = 0

\* what the connection attempt did: it was accepted (connect_ex returned 0)
\* or it was refused or timed out (connect_ex returned an errno)
Outcome(r) == IF r = 0 THEN "Open" ELSE "Closed"

Probe(ip, p, tag) == [ip |-> ip, port |-> p, tag |-> tag]

OpenLine(ip, p) == [kind |-> "open", ip |-> ip, port |-> p]
ClosedLine(ip, p) == [kind |-> "closed", ip |-> ip, port |-> p]
UsageLine == [kind |-> "usage"]
StoppedLine == [kind |-> "stopped"]
FaultLine == [kind |-> "fault"]


\* Setup taking an end address that does not convert as "no end given"
\* (end = start) instead of failing
Mut_Setup ==
    /\ pc = "setup"
    /\ stop_at_start' = stop_event
    /\ IF ~IsAddress(start_ip)
       THEN /\ pc' = "except_log"
            /\ exit' = "fault"
            /\ UNCHANGED locals
       ELSE LET e == IF IsAddress(end_ip) THEN AddrInt(end_ip)
                     ELSE AddrInt(start_ip)
            IN  /\ start' = AddrInt(start_ip)
                /\ end' = e
                /\ IF RangeReversed(AddrInt(start_ip), e)
                   THEN /\ pc' = "usage_log"
                        /\ exit' = "usage"
                        /\ UNCHANGED << open_ports, current_ip_int >>
                   ELSE /\ pc' = "while"
                        /\ exit' = exit
                        /\ open_ports' = <<>>
                        /\ current_ip_int' = AddrInt(start_ip)
                /\ UNCHANGED << ip_address, port, sock, result >>
    /\ UNCHANGED << args, extra, outer, gui, stop_event, log, delivered, hist >>


\* Setup without open_ports = []: the list of the previous invocation is
\* used again
Mut_Setup_NoReset ==
    /\ pc = "setup"
    /\ stop_at_start' = stop_event
    /\ IF ~IsAddress(start_ip) \/ ~IsAddress(end_ip)
       THEN /\ pc' = "except_log"
            /\ exit' = "fault"
            /\ UNCHANGED locals
       ELSE /\ start' = AddrInt(start_ip)
            /\ end' = AddrInt(end_ip)
            /\ IF RangeReversed(AddrInt(start_ip), AddrInt(end_ip))
               THEN /\ pc' = "usage_log"
                    /\ exit' = "usage"
                    /\ UNCHANGED << open_ports, current_ip_int >>
               ELSE /\ pc' = "while"
                    /\ exit' = exit
                    /\ UNCHANGED open_ports
                    /\ current_ip_int' = AddrInt(start_ip)
            /\ UNCHANGED << ip_address, port, sock, result >>
    /\ UNCHANGED << args, extra, outer, gui, stop_event, log, delivered, hist >>

\* ------------------------------------------------ the GUI's callbacks
\* PortScannerGUI.log_message, the log_callback of every scan
log_message(msg) == tkq' = Append(tkq, LogCall(msg, run))

\* what on_scan_complete queues for a list of results
CompletionCalls(results) ==
    (IF results # <<>>
     THEN << LogCall(FoundLine, run) >>
          \o [i \in 1..Len(results) |-> LogCall(ResultLine(results[i]), run)]
     ELSE << LogCall(NoneLine, run) >>)
    \o << LogCall(DurationLine, run), RestoreCall(run) >>

\* on_scan_complete, the result_callback of every scan; scan_ips calls it,
\* so it runs on the scan thread
on_scan_complete(results) ==
    /\ last_scan_results' = results
    /\ ctx' = [ctx EXCEPT !.results = "scan"]
    /\ tkq' = tkq \o CompletionCalls(results)

\* ------------------------------------------------------ the scan thread
\* ip_address() of both arguments, the ordering check and the
\* initialisation of the loop
Setup ==
    /\ pc = "setup"
    /\ stop_at_start' = stop_event
    /\ IF ~IsAddress(start_ip) \/ ~IsAddress(end_ip)
       THEN \* ValueError
            /\ pc' = "except_log"
            /\ exit' = "fault"
            /\ UNCHANGED locals
       ELSE /\ start' = AddrInt(start_ip)
            /\ end' = AddrInt(end_ip)
            /\ IF RangeReversed(AddrInt(start_ip), AddrInt(end_ip))
               THEN /\ pc' = "usage_log"
                    /\ exit' = "usage"
                    /\ UNCHANGED << open_ports, current_ip_int >>
               ELSE /\ pc' = "while"
                    /\ exit' = exit
                    /\ open_ports' = <<>>
                    /\ current_ip_int' = AddrInt(start_ip)
            /\ UNCHANGED << ip_address, port, sock, result >>
    /\ UNCHANGED << args, extra, outer, gui, stop_event, log, delivered, hist >>

UsageLog ==
    /\ pc = "usage_log"
    /\ log' = Append(log, UsageLine)
    /\ log_message(UsageLine)
    /\ pc' = "usage_done"
    /\ UNCHANGED << args, extra, outer, last_scan_results, main, stop_event, locals, delivered, hist, stop_at_start,
                    exit >>


\* UsageDone without the return: control falls through to the call of
\* result_callback after the loop
Mut_UsageDone ==
    /\ pc = "usage_done"
    /\ delivered' = Append(delivered, <<>>)
    /\ on_scan_complete(<<>>)
    /\ pc' = "final_done"
    /\ UNCHANGED << args, outer, main, stop_event, locals, log, hist, stop_at_start,
                    exit, file, copy, faulty, alive >>

UsageDone ==
    /\ pc = "usage_done"
    /\ delivered' = Append(delivered, <<>>)
    /\ on_scan_complete(<<>>)
    /\ pc' = "returned"
    /\ UNCHANGED << args, outer, main, stop_event, locals, log, hist, stop_at_start,
                    exit, file, copy, faulty, alive >>

\* the while test, the stop check before an address and the conversion of
\* the counter to dotted-decimal form
While ==
    /\ pc = "while"
    /\ IF ~MoreAddresses(current_ip_int, end)
       THEN /\ pc' = "final_done"
            /\ exit' = "complete"
            /\ UNCHANGED << ip_address, port >>
       ELSE IF is_set(stop_event)
       THEN /\ pc' = "stopped_log"
            /\ exit' = "cancel"
            /\ UNCHANGED << ip_address, port >>
       ELSE /\ ip_address' = AddrStr(current_ip_int)
            /\ port' = start_port
            /\ pc' = "for"
            /\ exit' = exit
    /\ UNCHANGED << args, extra, outer, gui, stop_event, start, end, open_ports, current_ip_int,
                    sock, result, log, delivered, hist, stop_at_start >>


\* For without the stop check before a port
Mut_For ==
    /\ pc = "for"
    /\ IF ~MorePorts(port, end_port)
       THEN /\ current_ip_int' = current_ip_int + 1
            /\ pc' = "while"
       ELSE /\ pc' = "socket"
            /\ UNCHANGED current_ip_int
    /\ UNCHANGED << args, extra, outer, gui, stop_event, start, end, open_ports, ip_address, port,
                    sock, result, log, delivered, hist, stop_at_start, exit >>

\* one step of the port iterator and the stop check before a port; when
\* the iterator is exhausted, current_ip_int += 1
For ==
    /\ pc = "for"
    /\ IF ~MorePorts(port, end_port)
       THEN /\ current_ip_int' = current_ip_int + 1
            /\ pc' = "while"
            /\ exit' = exit
       ELSE IF is_set(stop_event)
       THEN /\ pc' = "stopped_log"
            /\ exit' = "cancel"
            /\ UNCHANGED current_ip_int
       ELSE /\ pc' = "socket"
            /\ exit' = exit
            /\ UNCHANGED current_ip_int
    /\ UNCHANGED << args, extra, outer, gui, stop_event, start, end, open_ports, ip_address, port,
                    sock, result, log, delivered, hist, stop_at_start >>

\* socket.socket(AF_INET, SOCK_STREAM): returns a socket or raises OSError
Socket ==
    /\ pc = "socket"
    /\ started_after_set' = IF stop_event THEN started_after_set + 1
                            ELSE started_after_set
    /\ \E ok \in SocketResponses(env, << ip_address, port >>) :
          /\ env' = IF fixed
                    THEN [env EXCEPT
                            !.sock = (<< ip_address, port >> :> ok) @@ @]
                    ELSE env
          /\ IF ok
             THEN /\ sock' = "open"
                  /\ resources' = resources + 1
                  /\ created' = created + 1
                  /\ pc' = "connect"
                  /\ UNCHANGED << probes, exit >>
             ELSE \* OSError
                  /\ probes' = Append(probes, Probe(ip_address, port, "Error"))
                  /\ pc' = "except_log"
                  /\ exit' = "fault"
                  /\ UNCHANGED << sock, resources, created >>
    /\ UNCHANGED << args, extra, gui, fixed, run, prev, stop_event, start, end, open_ports,
                    current_ip_int, ip_address, port, result, log, delivered,
                    stop_at_start >>


\* Connect under a handler that catches OSError only: the OverflowError
\* leaves scan_ips
Mut_Connect ==
    /\ pc = "connect"
    /\ IF ~PortAccepted(port)
       THEN /\ probes' = Append(probes, Probe(ip_address, port, "Error"))
            /\ pc' = "raised"
            /\ exit' = "fault"
            /\ UNCHANGED << result, env >>
       ELSE /\ result' \in ConnectResponses(env, << ip_address, port >>)
            /\ env' = IF fixed
                      THEN [env EXCEPT
                              !.conn = (<< ip_address, port >> :> result') @@ @]
                      ELSE env
            /\ pc' = "classify"
            /\ UNCHANGED << probes, exit >>
    /\ UNCHANGED << args, extra, gui, fixed, run, prev, stop_event, start, end, open_ports,
                    current_ip_int, ip_address, port, sock, log, delivered,
                    resources, created, started_after_set, stop_at_start >>

\* sock.settimeout(0.005); result = sock.connect_ex((ip_address, port))
Connect ==
    /\ pc = "connect"
    /\ IF ~PortAccepted(port)
       THEN \* OverflowError
            /\ probes' = Append(probes, Probe(ip_address, port, "Error"))
            /\ pc' = "except_log"
            /\ exit' = "fault"
            /\ UNCHANGED << result, env >>
       ELSE /\ result' \in ConnectResponses(env, << ip_address, port >>)
            /\ env' = IF fixed
                      THEN [env EXCEPT
                              !.conn = (<< ip_address, port >> :> result') @@ @]
                      ELSE env
            /\ pc' = "classify"
            /\ UNCHANGED << probes, exit >>
    /\ UNCHANGED << args, extra, gui, fixed, run, prev, stop_event, start, end, open_ports,
                    current_ip_int, ip_address, port, sock, log, delivered,
                    resources, created, started_after_set, stop_at_start >>


\* Classify inserting the pair at the front of open_ports
Mut_Classify ==
    /\ pc = "classify"
    /\ probes' = Append(probes, Probe(ip_address, port, Outcome(result)))
    /\ IF Succeeded(result)
       THEN /\ open_ports' = << << ip_address, port >> >> \o open_ports
            /\ pc' = "log_open"
       ELSE /\ pc' = IF verbose THEN "log_closed" ELSE "close"
            /\ UNCHANGED open_ports
    /\ UNCHANGED << args, extra, outer, gui, stop_event, start, end, current_ip_int, ip_address,
                    port, sock, result, log, delivered, resources, created,
                    started_after_set, stop_at_start, exit >>

\* if result == 0: open_ports.append(...)  /  elif verbose and log_callback
Classify ==
    /\ pc = "classify"
    /\ probes' = Append(probes, Probe(ip_address, port, Outcome(result)))
    /\ IF Succeeded(result)
       THEN /\ open_ports' = Append(open_ports, << ip_address, port >>)
            /\ pc' = "log_open"
       ELSE /\ pc' = IF verbose THEN "log_closed" ELSE "close"
            /\ UNCHANGED open_ports
    /\ UNCHANGED << args, extra, outer, gui, stop_event, start, end, current_ip_int, ip_address,
                    port, sock, result, log, delivered, resources, created,
                    started_after_set, stop_at_start, exit >>

LogOpen ==
    /\ pc = "log_open"
    /\ log' = Append(log, OpenLine(ip_address, port))
    /\ log_message(OpenLine(ip_address, port))
    /\ pc' = "close"
    /\ UNCHANGED << args, extra, outer, last_scan_results, main, stop_event, locals, delivered, hist, stop_at_start,
                    exit >>


\* LogClosed writing the line of an open port
Mut_LogClosed ==
    /\ pc = "log_closed"
    /\ log' = Append(log, OpenLine(ip_address, port))
    /\ log_message(OpenLine(ip_address, port))
    /\ pc' = "close"
    /\ UNCHANGED << args, extra, outer, last_scan_results, main, stop_event, locals, delivered, hist,
                    stop_at_start, exit >>

LogClosed ==
    /\ pc = "log_closed"
    /\ log' = Append(log, ClosedLine(ip_address, port))
    /\ log_message(ClosedLine(ip_address, port))
    /\ pc' = "close"
    /\ UNCHANGED << args, extra, outer, last_scan_results, main, stop_event, locals, delivered, hist, stop_at_start,
                    exit >>

\* sock.close(), then the port iterator advances
Close ==
    /\ pc = "close"
    /\ sock' = "closed"
    /\ resources' = resources - 1
    /\ port' = NextPort(port)
    /\ pc' = "for"
    /\ UNCHANGED << args, extra, outer, gui, stop_event, start, end, open_ports, current_ip_int,
                    ip_address, result, log, delivered, probes, created,
                    started_after_set, stop_at_start, exit >>


\* StoppedLog that also clears the event it has seen
Mut_StoppedLog ==
    /\ pc = "stopped_log"
    /\ log' = Append(log, StoppedLine)
    /\ log_message(StoppedLine)
    /\ stop_event' = FALSE
    /\ pc' = "stopped_done"
    /\ UNCHANGED << args, extra, outer, last_scan_results, main, locals, delivered, hist, stop_at_start, exit >>

StoppedLog ==
    /\ pc = "stopped_log"
    /\ log' = Append(log, StoppedLine)
    /\ log_message(StoppedLine)
    /\ pc' = "stopped_done"
    /\ UNCHANGED << args, extra, outer, last_scan_results, main, stop_event, locals, delivered, hist, stop_at_start,
                    exit >>


\* StoppedDone handing over an empty list instead of open_ports
Mut_StoppedDone ==
    /\ pc = "stopped_done"
    /\ delivered' = Append(delivered, <<>>)
    /\ on_scan_complete(<<>>)
    /\ pc' = "returned"
    /\ UNCHANGED << args, outer, main, stop_event, locals, log, hist, stop_at_start,
                    exit, file, copy, faulty, alive >>

StoppedDone ==
    /\ pc = "stopped_done"
    /\ delivered' = Append(delivered, open_ports)
    /\ on_scan_complete(open_ports)
    /\ pc' = "returned"
    /\ UNCHANGED << args, outer, main, stop_event, locals, log, hist, stop_at_start,
                    exit, file, copy, faulty, alive >>

\* result_callback(open_ports) after the while loop
FinalDone ==
    /\ pc = "final_done"
    /\ delivered' = Append(delivered, open_ports)
    /\ on_scan_complete(open_ports)
    /\ pc' = "returned"
    /\ UNCHANGED << args, outer, main, stop_event, locals, log, hist, stop_at_start,
                    exit, file, copy, faulty, alive >>


\* ExceptLog that logs only when verbose
Mut_ExceptLog ==
    /\ pc = "except_log"
    /\ IF verbose
       THEN /\ log' = Append(log, FaultLine)
            /\ log_message(FaultLine)
       ELSE UNCHANGED << log, tkq >>
    /\ pc' = "except_done"
    /\ UNCHANGED << args, extra, outer, last_scan_results, main, stop_event, locals, delivered, hist, stop_at_start,
                    exit >>

\* except Exception as e: log_callback(...)
ExceptLog ==
    /\ pc = "except_log"
    /\ log' = Append(log, FaultLine)
    /\ log_message(FaultLine)
    /\ pc' = "except_done"
    /\ UNCHANGED << args, extra, outer, last_scan_results, main, stop_event, locals, delivered, hist, stop_at_start,
                    exit >>


\* ExceptDone without the call of result_callback
Mut_ExceptDone ==
    /\ pc = "except_done"
    /\ pc' = "returned"
    /\ UNCHANGED << args, extra, outer, gui, stop_event, locals, log, delivered, hist,
                    stop_at_start, exit >>

\* except Exception as e: result_callback([])
ExceptDone ==
    /\ pc = "except_done"
    /\ delivered' = Append(delivered, <<>>)
    /\ on_scan_complete(<<>>)
    /\ pc' = "returned"
    /\ UNCHANGED << args, outer, main, stop_event, locals, log, hist, stop_at_start,
                    exit, file, copy, faulty, alive >>

\* a call of log_callback or of result_callback inside the try block
\* raises: control goes to the except clause; a raising on_scan_complete
\* has assigned last_scan_results and queued nothing
CallbackRaises ==
    /\ faulty
    /\ pc \in { "usage_log", "usage_done", "log_open", "log_closed",
                "stopped_log", "stopped_done", "final_done" }
    /\ pc' = "except_log"
    /\ exit' = "fault"
    /\ IF pc \in { "usage_done", "stopped_done", "final_done" }
       THEN LET results == IF pc = "usage_done" THEN << >> ELSE open_ports
            IN  /\ delivered' = Append(delivered, results)
                /\ last_scan_results' = results
                /\ ctx' = [ctx EXCEPT !.results = "scan"]
       ELSE UNCHANGED << delivered, last_scan_results, ctx >>
    /\ UNCHANGED << args, outer, main, tkq, stop_event, locals, log, hist,
                    stop_at_start, file, copy, faulty, alive >>

\* a call of log_callback or of result_callback inside the except clause
\* raises: the exception leaves scan_ips
HandlerRaises ==
    /\ faulty
    /\ pc \in { "except_log", "except_done" }
    /\ pc' = "raised"
    /\ IF pc = "except_done"
       THEN /\ delivered' = Append(delivered, << >>)
            /\ last_scan_results' = << >>
            /\ ctx' = [ctx EXCEPT !.results = "scan"]
       ELSE UNCHANGED << delivered, last_scan_results, ctx >>
    /\ UNCHANGED << args, outer, main, tkq, stop_event, locals, log, hist,
                    stop_at_start, exit, file, copy, faulty, alive >>

\* after the return the interpreter may finalize a socket object that was
\* never closed; nothing in scan_ips makes it do so
Finalize ==
    /\ pc = "returned"
    /\ sock = "open"
    /\ sock' = "closed"
    /\ resources' = resources - 1
    /\ UNCHANGED << args, extra, outer, gui, stop_event, pc, start, end, open_ports,
                    current_ip_int, ip_address, port, result, log, delivered,
                    probes, created, started_after_set, stop_at_start, exit >>

\* -------------------------------------------------------- the initiator
\* a toggle_scan that takes a scan thread to be alive at every click
Mut_ThreadAlive == TRUE

\* scan_thread is not None and scan_thread.is_alive()
ThreadAlive == alive > 0

\* the scan thread ends some time after scan_ips has returned to it (or
\* has raised); until then is_alive() is still true
ThreadExit ==
    /\ pc \in { "returned", "raised" }
    /\ alive > 0
    /\ alive' = alive - 1
    /\ UNCHANGED << args, outer, gui, stop_event, pc, locals, log, delivered,
                    hist, stop_at_start, exit, file, copy, faulty, ctx >>

\* toggle_scan while the scan thread is alive: stop_event.set()
SetStop ==
    /\ ThreadAlive
    /\ button.state = "normal"
    /\ stop_event' = TRUE
    /\ button' = StoppingButton
    /\ stop_req' = run
    /\ ctx' = [ctx EXCEPT !.button = "main"]
    /\ UNCHANGED << args, outer, pc, locals, log, delivered, hist, stop_at_start,
                    exit, tkq, last_scan_results, log_area, requested,
                    file, copy, faulty, alive >>


\* Rerun without self.last_scan_results = []
Mut_Rerun ==
    /\ pc = "returned"
    /\ ~ThreadAlive
    /\ run = 1
    /\ prev' = [verbose |-> verbose, probes |-> probes, log |-> log,
                delivered |-> delivered, exit |-> exit]
    /\ run' = run + 1
    /\ verbose' \in BOOLEAN
    /\ log_area' = <<>>
    /\ last_scan_results' = last_scan_results
    /\ stop_event' = NewEvent
    /\ tkq' = Append(tkq, LogCall(StartingLine, run'))
    /\ pc' = "setup"
    /\ button' = StopButton
    /\ log' = <<>>
    /\ delivered' = <<>>
    /\ probes' = <<>>
    /\ created' = 0
    /\ started_after_set' = 0
    /\ stop_at_start' = FALSE
    /\ exit' = "none"
    /\ alive' = alive + 1
    /\ ctx' = AllMain
    /\ UNCHANGED << start_ip, end_ip, start_port, end_port, locals, resources,
                    fixed, env, stop_req, requested, file, copy, faulty >>

\* scan_ips is invoked again, on a new thread with a new Event, for the
\* same ranges and against the same environment; the locals of the new
\* frame are unbound until assigned, so the values shown are never read
Rerun ==
    /\ pc = "returned"
    /\ ~ThreadAlive
    /\ run = 1
    /\ prev' = [verbose |-> verbose, probes |-> probes, log |-> log,
                delivered |-> delivered, exit |-> exit]
    /\ run' = run + 1
    /\ verbose' \in BOOLEAN
    /\ log_area' = <<>>
    /\ last_scan_results' = <<>>
    /\ stop_event' = NewEvent
    /\ tkq' = Append(tkq, LogCall(StartingLine, run'))
    /\ pc' = "setup"
    /\ button' = StopButton
    /\ log' = <<>>
    /\ delivered' = <<>>
    /\ probes' = <<>>
    /\ created' = 0
    /\ started_after_set' = 0
    /\ stop_at_start' = FALSE
    /\ exit' = "none"
    /\ alive' = alive + 1
    /\ ctx' = AllMain
    /\ UNCHANGED << start_ip, end_ip, start_port, end_port, locals, resources,
                    fixed, env, stop_req, requested, file, copy, faulty >>

\* toggle_scan while no scan thread is alive: start_new_scan, for any
\* fields and verbose box the user can still afford
StartNewScan ==
    /\ ~ThreadAlive
    /\ button.state = "normal"
    /\ \E c \in Clicks[MaxRequested - requested] :
          /\ requested' = requested + c.cost
          /\ IF c.rejection # "none"
             THEN /\ log_message(InvalidLine(c.rejection))
                  /\ UNCHANGED << args, extra, outer, stop_event, pc, locals, log,
                                  delivered, hist, stop_at_start, exit,
                                  last_scan_results, log_area, button,
                                  stop_req >>
             ELSE /\ log_area' = <<>>
                  /\ last_scan_results' = <<>>
                  /\ stop_event' = NewEvent
                  /\ tkq' = Append(tkq, LogCall(StartingLine, run + 1))
                  /\ start_ip' = c.args[1]
                  /\ end_ip' = c.args[2]
                  /\ start_port' = c.args[3]
                  /\ end_port' = c.args[4]
                  /\ verbose' = c.args[5]
                  /\ run' = run + 1
                  /\ pc' = "setup"
                  /\ start' = 0
                  /\ end' = 0
                  /\ open_ports' = <<>>
                  /\ current_ip_int' = 0
                  /\ ip_address' = <<>>
                  /\ port' = 0
                  /\ sock' = "none"
                  /\ result' = 0
                  /\ button' = StopButton
                  /\ log' = <<>>
                  /\ delivered' = <<>>
                  /\ probes' = <<>>
                  /\ created' = 0
                  /\ started_after_set' = 0
                  /\ stop_at_start' = FALSE
                  /\ exit' = "none"
                  /\ alive' = alive + 1
                  /\ ctx' = AllMain
                  /\ UNCHANGED << fixed, env, prev, resources, stop_req,
                                  file, copy, faulty >>


\* TkDispatch with _log_message_safe inserting its line at the top of the
\* log area
Mut_TkDispatch ==
    /\ tkq # <<>>
    /\ tkq' = Tail(tkq)
    /\ IF Head(tkq).fn = "_log_message_safe"
       THEN /\ log_area' = << Head(tkq) >> \o log_area
            /\ ctx' = [ctx EXCEPT !.log_area = "main"]
            /\ UNCHANGED button
       ELSE /\ button' = StartButton
            /\ ctx' = [ctx EXCEPT !.button = "main"]
            /\ UNCHANGED log_area
    /\ UNCHANGED << args, outer, stop_event, pc, locals, log, delivered, hist,
                    stop_at_start, exit, last_scan_results, stop_req,
                    requested, file, copy, faulty, alive >>

\* the Tk main loop runs the oldest queued callback: _log_message_safe
\* inserts its line at the end of the log area, the other callback
\* restores the button
TkDispatch ==
    /\ tkq # <<>>
    /\ tkq' = Tail(tkq)
    /\ IF Head(tkq).fn = "_log_message_safe"
       THEN /\ log_area' = Append(log_area, Head(tkq))
            /\ ctx' = [ctx EXCEPT !.log_area = "main"]
            /\ UNCHANGED button
       ELSE /\ button' = StartButton
            /\ ctx' = [ctx EXCEPT !.button = "main"]
            /\ UNCHANGED log_area
    /\ UNCHANGED << args, outer, stop_event, pc, locals, log, delivered, hist,
                    stop_at_start, exit, last_scan_results, stop_req,
                    requested, file, copy, faulty, alive >>

\* a click on the save button: save_results_to_csv; the file dialog is
\* cancelled, or the file is written, or open() raises
SaveResults ==
    /\ requested < MaxRequested
    /\ requested' = requested + 1
    /\ IF last_scan_results = << >>
       THEN /\ log_message(NoResultsLine)
            /\ file' = [file EXCEPT !.calls = @ + 1]
       ELSE \E answer \in { "cancelled", "written", "failed" } :
              /\ answer = "cancelled" =>
                    /\ file' = [file EXCEPT !.calls = @ + 1]
                    /\ UNCHANGED tkq
              /\ answer = "written" =>
                    /\ file' = [calls |-> file.calls + 1,
                                n |-> file.n + 1,
                                header |-> HeaderRow(copy),
                                rows |-> CsvRows(last_scan_results)]
                    /\ log_message(SavedLine)
              /\ answer = "failed" =>
                    /\ file' = [file EXCEPT !.calls = @ + 1]
                    /\ log_message(SaveErrorLine)
    /\ UNCHANGED << args, outer, stop_event, pc, locals, log, delivered, hist,
                    stop_at_start, exit, last_scan_results, log_area, button,
                    stop_req, copy, faulty, alive, ctx >>

Engine ==
    \/ Setup \/ UsageLog \/ UsageDone \/ While \/ For \/ Socket \/ Connect
    \/ Classify \/ LogOpen \/ LogClosed \/ Close \/ StoppedLog \/ StoppedDone
    \/ FinalDone \/ ExceptLog \/ ExceptDone \/ ThreadExit

Next ==
    \/ Setup
    \/ UsageLog
    \/ UsageDone
    \/ While
    \/ For
    \/ Socket
    \/ Connect
    \/ Classify
    \/ LogOpen
    \/ LogClosed
    \/ Close
    \/ StoppedLog
    \/ StoppedDone
    \/ FinalDone
    \/ ExceptLog
    \/ ExceptDone
    \/ ThreadExit
    \/ Finalize
    \/ SetStop

Spec == Init /\ [][Next]_vars

\* the scan thread is scheduled as long as it has a step to take
FairSpec == Spec /\ WF_vars(Engine)

\* one scan_ips call at the end of the IPv4 range
TopSpec == TopInit /\ [][Next]_vars


RaiseNext ==
    \/ Setup
    \/ UsageLog
    \/ UsageDone
    \/ While
    \/ For
    \/ Socket
    \/ Connect
    \/ Classify
    \/ LogOpen
    \/ LogClosed
    \/ Close
    \/ StoppedLog
    \/ StoppedDone
    \/ FinalDone
    \/ ExceptLog
    \/ ExceptDone
    \/ ThreadExit
    \/ CallbackRaises
    \/ HandlerRaises
    \/ Finalize
    \/ SetStop

\* one scan_ips call whose callbacks may raise
RaiseSpec == RaiseInit /\ [][RaiseNext]_vars

PairNext ==
    \/ Setup
    \/ UsageLog
    \/ UsageDone
    \/ While
    \/ For
    \/ Socket
    \/ Connect
    \/ Classify
    \/ LogOpen
    \/ LogClosed
    \/ Close
    \/ StoppedLog
    \/ StoppedDone
    \/ FinalDone
    \/ ExceptLog
    \/ ExceptDone
    \/ ThreadExit
    \/ Finalize
    \/ SetStop
    \/ Rerun

\* two invocations for the same ranges against one fixed environment
PairSpec == PairInit /\ [][PairNext]_vars

GuiNext ==
    \/ Setup
    \/ UsageLog
    \/ UsageDone
    \/ While
    \/ For
    \/ Socket
    \/ Connect
    \/ Classify
    \/ LogOpen
    \/ LogClosed
    \/ Close
    \/ StoppedLog
    \/ StoppedDone
    \/ FinalDone
    \/ ExceptLog
    \/ ExceptDone
    \/ ThreadExit
    \/ SetStop
    \/ StartNewScan
    \/ TkDispatch

\* the application: the user, the Tk main loop and the scan threads
GuiSpec == GuiInit /\ [][GuiNext]_vars

\* the scan thread is scheduled as long as it has a step to take, and the
\* Tk main loop runs a scheduled callback as long as one is queued
FairGuiSpec == GuiSpec /\ WF_vars(Engine) /\ WF_vars(TkDispatch)

ExportNext ==
    \/ Setup
    \/ UsageLog
    \/ UsageDone
    \/ While
    \/ For
    \/ Socket
    \/ Connect
    \/ Classify
    \/ LogOpen
    \/ LogClosed
    \/ Close
    \/ StoppedLog
    \/ StoppedDone
    \/ FinalDone
    \/ ExceptLog
    \/ ExceptDone
    \/ ThreadExit
    \/ SetStop
    \/ StartNewScan
    \/ TkDispatch
    \/ SaveResults

\* either copy of the application, the save button included
ExportSpec == ExportInit /\ [][ExportNext]_vars

TypeOK ==
    /\ pc \in { "idle", "setup", "usage_log", "usage_done", "while", "for", "socket",
                "connect", "classify", "log_open", "log_closed", "close",
                "stopped_log", "stopped_done", "final_done", "except_log",
                "except_done", "returned", "raised" }
    /\ stop_event \in BOOLEAN
    /\ sock \in { "none", "open", "closed" }
    /\ exit \in { "none", "usage", "cancel", "complete", "fault" }
    /\ resources \in Nat
    /\ Len(delivered) <= 2

\* ------------------------------------------------- vocabulary of claims
\* the pairs of the probes classified Open, in probe order
OpenPairs(ps) ==
    LET sel == SelectSeq(ps, LAMBDA r : r.tag = "Open")
    IN  [ i \in 1..Len(sel) |-> << sel[i].ip, sel[i].port >> ]

\* number of log lines of one kind
CountKind(l, k) == Len(SelectSeq(l, LAMBDA x : x.kind = k))

\* both address arguments convert
ValidArgs == IsAddress(start_ip) /\ IsAddress(end_ip)

\* start <= end for the addresses
Ordered == ValidArgs /\ AddrInt(start_ip) <= AddrInt(end_ip)

\* start > end for the addresses
Reversed == ValidArgs /\ AddrInt(start_ip) > AddrInt(end_ip)

\* a valid PortRange: 0 <= start <= end <= 65535
ValidPorts == 0 <= start_port /\ start_port <= end_port /\ end_port <= MAX_PORT

\* number of (address, port) pairs of the ranges
NumPairs ==
    (AddrInt(end_ip) - AddrInt(start_ip) + 1)
        * (IF start_port <= end_port THEN end_port - start_port + 1 ELSE 0)

\* largest number of probes of a run of the modelled inputs
MaxProbes == (AddrSpan + 1) * (PortSpan + 1)

\* ----------------------------------------------------------------- C1
\* C1: on every path of scan_ips (natural completion, cancellation,
\* start > end, a fault raised inside the run) the run terminates and
\* result_callback has then been called exactly once; at no point has it
\* been called twice.
C1_OnDoneExactlyOnce ==
    /\ [](Len(delivered) <= 1)
    /\ [](pc = "returned" => Len(delivered) = 1)
    /\ <>(pc = "returned")

\* a run that ended on the fault path after finding an open port
C1_Witness ==
    /\ pc = "returned"
    /\ exit = "fault"
    /\ Len(delivered) = 1
    /\ \E i \in 1..Len(probes) : probes[i].tag = "Open"

\* ----------------------------------------------------------------- C3
\* C3: once a stop check has seen the event set, the run logs exactly one
\* "stopped" line, calls result_callback with exactly the pairs classified
\* Open so far, and classifies no further probe and creates no further
\* socket.
C3_CancelObserved ==
    /\ [](exit = "cancel" =>
            /\ CountKind(log, "stopped") <= 1
            /\ \A i \in 1..Len(delivered) : delivered[i] = OpenPairs(probes)
            /\ pc = "returned" =>
                  /\ CountKind(log, "stopped") = 1
                  /\ delivered = << OpenPairs(probes) >>)
    /\ [][exit = "cancel" => probes' = probes /\ created' = created]_vars

\* a cancelled run that had found an open port and handed it over
C3_Witness ==
    /\ exit = "cancel"
    /\ pc = "returned"
    /\ Len(open_ports) >= 1
    /\ \E i \in 1..Len(probes) : probes[i].tag = "Closed"

\* ----------------------------------------------------------------- C4
\* C4: if the stop event is already set when scan_ips begins and
\* start_ip <= end_ip, no probe is made, no socket is created, and the
\* list handed to result_callback is empty.
C4_PresetStop ==
    (stop_at_start /\ Ordered) =>
        /\ probes = <<>>
        /\ created = 0
        /\ pc \notin { "socket", "connect", "classify" }
        /\ \A i \in 1..Len(delivered) : delivered[i] = <<>>
        /\ pc = "returned" => delivered = << <<>> >>

\* a run over a non-empty port range that began with the event set and ended
C4_Witness ==
    /\ stop_at_start
    /\ Ordered
    /\ ValidPorts
    /\ pc = "returned"
    /\ exit = "cancel"

\* ----------------------------------------------------------------- C2
\* C2: a probe that fails with an exception does not stop the run: with
\* valid ranges and no cancellation the run ends only after every pair has
\* been probed, and every pair classified Open is in the list handed to
\* result_callback.
C2_ErrorNonFatal ==
    (pc = "returned" /\ Ordered /\ ValidPorts /\ exit # "cancel") =>
        /\ Len(probes) = NumPairs
        /\ \A j \in 1..Len(probes) :
              probes[j].tag = "Open" =>
                 \E i \in 1..Len(delivered[1]) :
                    delivered[1][i] = << probes[j].ip, probes[j].port >>

\* ----------------------------------------------------------------- C5
\* C5: a probe whose stop check has passed is always classified; after
\* the event is set at most one further probe is started, and the run
\* ends with one call of result_callback.
C5_BoundedCancel ==
    /\ [](started_after_set <= 1)
    /\ \A n \in 0..MaxProbes :
          (pc \in { "socket", "connect", "classify" } /\ Len(probes) = n)
             ~> (Len(probes) = n + 1)
    /\ stop_event ~> (pc = "returned" /\ Len(delivered) = 1)

\* the event was set after a stop check had passed: that probe started and
\* was classified, then the run stopped
C5_Witness ==
    /\ started_after_set = 1
    /\ exit = "cancel"
    /\ pc = "returned"
    /\ Len(probes) >= 2

\* ----------------------------------------------------------------- C6
\* C6: with start <= end for addresses and ports and no cancellation, the
\* number of probes of a run is
\* (end_ip - start_ip + 1) * (end_port - start_port + 1).
C6_ProbeCount ==
    (pc = "returned" /\ Ordered /\ ValidPorts /\ exit # "cancel") =>
        Len(probes) = (AddrInt(end_ip) - AddrInt(start_ip) + 1)
                         * (end_port - start_port + 1)

\* ----------------------------------------------------------------- C7
\* C7: if start_ip > end_ip, no probe is made, no socket is created, the
\* only log line is the ordering error, and result_callback gets an empty
\* list.
C7_UsageError ==
    Reversed =>
        /\ probes = <<>>
        /\ created = 0
        /\ \A i \in 1..Len(log) : i = 1 /\ log[i] = UsageLine
        /\ \A i \in 1..Len(delivered) : delivered[i] = <<>>
        /\ pc = "returned" => log = << UsageLine >> /\ delivered = << <<>> >>

\* a run with start_ip one above end_ip has ended
C7_Witness ==
    /\ Reversed
    /\ AddrInt(start_ip) = AddrInt(end_ip) + 1
    /\ pc = "returned"

\* ----------------------------------------------------------------- C8
\* s holds only pairs whose probe was classified Open
OnlyOpen(s) ==
    \A i \in 1..Len(s) :
       /\ \E j \in 1..Len(probes) : probes[j] = Probe(s[i][1], s[i][2], "Open")
       /\ \A j \in 1..Len(probes) :
             (probes[j].ip = s[i][1] /\ probes[j].port = s[i][2])
                => probes[j].tag = "Open"

\* C8: open_ports and every list handed to result_callback hold only
\* pairs whose probe was classified Open; after natural completion the
\* list handed over holds every pair classified Open.
C8_OnlyOpenResults ==
    /\ OnlyOpen(open_ports)
    /\ \A k \in 1..Len(delivered) : OnlyOpen(delivered[k])
    /\ (pc = "returned" /\ exit = "complete") =>
          \A j \in 1..Len(probes) :
             probes[j].tag = "Open" =>
                \E i \in 1..Len(delivered[1]) :
                   delivered[1][i] = << probes[j].ip, probes[j].port >>

\* a completed run with an open, a timed-out and a refused probe
C8_Witness ==
    /\ pc = "returned"
    /\ exit = "complete"
    /\ Len(delivered[1]) >= 1
    /\ \E j \in 1..Len(probes) : probes[j].tag = "Closed"
    /\ Len(probes) >= 3

\* ----------------------------------------------------------------- C9
\* pair a comes before pair b: lower address, or same address and lower port
PairLess(a, b) ==
    \/ AddrInt(a[1]) < AddrInt(b[1])
    \/ AddrInt(a[1]) = AddrInt(b[1]) /\ a[2] < b[2]

StrictlyAscending(s) == \A i \in 1..(Len(s) - 1) : PairLess(s[i], s[i + 1])

\* C9: open_ports and every list handed to result_callback are strictly
\* ascending by address value and then by port (hence without duplicates).
C9_AscendingOutcome ==
    /\ StrictlyAscending(open_ports)
    /\ \A k \in 1..Len(delivered) : StrictlyAscending(delivered[k])

\* two addresses with two open ports each were handed over
C9_Witness ==
    /\ pc = "returned"
    /\ Len(delivered[1]) = 4
    /\ delivered[1][1][1] # delivered[1][4][1]

\* ---------------------------------------------------------------- C10
\* C10: at most one socket is open at any time, a socket is open only
\* between its creation and the close that follows the classification,
\* and none is open once the run leaves the probe (next port, stop,
\* fault handling, return).
C10_ResourceReleased ==
    /\ resources <= 1
    /\ pc \notin { "connect", "classify", "log_open", "log_closed", "close" }
          => resources = 0

\* ---------------------------------------------------------------- C11
\* C11: no exception leaves scan_ips: every run in which something failed
\* (a conversion in the setup, socket creation, connect_ex) reaches the
\* normal return, and it has then called result_callback.
C11_NoFaultEscapes ==
    /\ [](pc # "raised")
    /\ []((exit = "fault" /\ pc = "returned") => Len(delivered) >= 1)
    /\ (exit = "fault") ~> (pc = "returned")

\* a run has returned after connect_ex raised on an open socket
C11_Witness ==
    /\ exit = "fault"
    /\ pc = "returned"
    /\ created >= 1
    /\ probes # <<>>
    /\ probes[Len(probes)].tag = "Error"
    /\ Len(delivered) = 1

\* ---------------------------------------------------------------- C12
\* C12: when an address argument does not convert (also one the GUI
\* validation accepts), no probe is made, no socket is created, the log
\* gets exactly one line, the fault line, and result_callback is called
\* once with an empty list.
C12_SetupFault ==
    ~ValidArgs =>
        /\ probes = <<>>
        /\ created = 0
        /\ log \in { <<>>, << FaultLine >> }
        /\ delivered \in { <<>>, << <<>> >> }
        /\ pc = "returned" => log = << FaultLine >> /\ delivered = << <<>> >>

\* both arguments pass is_valid_ip_address, one does not convert, and the
\* run has ended
C12_Witness ==
    /\ is_valid_ip_address(start_ip)
    /\ is_valid_ip_address(end_ip)
    /\ IsAddress(start_ip)
    /\ ~IsAddress(end_ip)
    /\ pc = "returned"

\* ---------------------------------------------------------------- C13
\* number of probes with one classification
NumTag(t) == Len(SelectSeq(probes, LAMBDA r : r.tag = t))

\* C13: every probe classified Error gets a log line whether or not
\* verbose is set, every probe classified Open gets one, and a probe
\* classified Closed gets one exactly when verbose is set.
C13_ErrorAlwaysLogged ==
    /\ ValidArgs => CountKind(log, "fault") <= NumTag("Error")
    /\ (ValidArgs /\ pc # "except_log") =>
          CountKind(log, "fault") = NumTag("Error")
    /\ pc # "log_open" => CountKind(log, "open") = NumTag("Open")
    /\ pc # "log_closed" =>
          CountKind(log, "closed") = (IF verbose THEN NumTag("Closed") ELSE 0)

\* a quiet run that had a closed probe and then a failed one has ended
C13_Witness ==
    /\ ~verbose
    /\ NumTag("Error") = 1
    /\ NumTag("Closed") >= 1
    /\ CountKind(log, "closed") = 0
    /\ pc = "returned"

\* ---------------------------------------------------------------- C16
\* C16: once result_callback has been called, the run makes no probe,
\* creates no socket, logs nothing, calls result_callback no more and
\* leaves the list it handed over as it is; before that, open_ports
\* changes only by the scan thread appending the pair it has just
\* classified.
C16_OnDoneLast ==
    /\ [][Len(delivered) >= 1 =>
             /\ log' = log
             /\ probes' = probes
             /\ created' = created
             /\ delivered' = delivered
             /\ open_ports' = open_ports]_vars
    /\ [][open_ports' # open_ports =>
             /\ pc = "classify"
             /\ Len(delivered) = 0
             /\ open_ports' = Append(open_ports, << ip_address, port >>)]_vars

\* a cancelled run has handed over a non-empty list and returned
C16_Witness ==
    /\ pc = "returned"
    /\ stop_event
    /\ Len(delivered) = 1
    /\ Len(delivered[1]) >= 1
    /\ delivered[1] = open_ports

Quiet(l) == SelectSeq(l, LAMBDA x : x.kind # "closed")

\* number of probes of ps classified Closed
NumClosed(ps) == Len(SelectSeq(ps, LAMBDA r : r.tag = "Closed"))

\* this invocation and the previous one both ended without a stop check
\* having seen the event
BothUncancelled ==
    /\ run >= 2
    /\ pc = "returned"
    /\ exit # "cancel"
    /\ prev.exit # "cancel"

\* C14: two uncancelled runs for the same ranges against the same
\* environment make the same probes with the same classifications and
\* hand over the same list, whatever verbose is in each; their logs are
\* equal once the closed-port lines are removed, and a run logs one
\* closed-port line per probe classified Closed if verbose and none if not.
C14_VerboseOnlyAddsLines ==
    BothUncancelled =>
        /\ probes = prev.probes
        /\ delivered = prev.delivered
        /\ Quiet(log) = Quiet(prev.log)
        /\ CountKind(log, "closed")
              = (IF verbose THEN NumClosed(probes) ELSE 0)
        /\ CountKind(prev.log, "closed")
              = (IF prev.verbose THEN NumClosed(prev.probes) ELSE 0)

\* a verbose and a quiet run over an open and a closed port have ended
C14_Witness ==
    /\ BothUncancelled
    /\ verbose # prev.verbose
    /\ NumClosed(probes) >= 1
    /\ NumTag("Open") >= 1
    /\ Len(log) # Len(prev.log)

\* ---------------------------------------------------------------- C19
\* C19: two uncancelled runs for the same ranges against the same
\* listening pairs hand over the same list, and whatever a run hands over
\* or accumulates consists of the pairs its own probes classified Open:
\* nothing of the previous run is carried over.
C19_RunsIndependent ==
    /\ BothUncancelled => delivered = prev.delivered
    /\ (run >= 2 /\ pc \notin { "setup", "usage_log", "usage_done",
                                "except_log", "except_done" }
            /\ exit \notin { "usage", "fault" })
          => open_ports = OpenPairs(probes)
    /\ run >= 2 =>
          \A k \in 1..Len(delivered) :
             delivered[k] \in { <<>>, OpenPairs(probes) }

\* the second of two runs that found the same two open ports has ended
C19_Witness ==
    /\ BothUncancelled
    /\ exit = "complete"
    /\ Len(delivered[1]) >= 2
    /\ delivered = prev.delivered


\* ---------------------------------------------------------------- C15
\* the probes whose classification is logged: Open always, Closed when
\* verbose
LoggedProbes(ps, v) ==
    SelectSeq(ps, LAMBDA r : r.tag = "Open" \/ (r.tag = "Closed" /\ v))

\* the line the classification of probe r is logged with
LineOf(r) ==
    IF r.tag = "Open" THEN OpenLine(r.ip, r.port) ELSE ClosedLine(r.ip, r.port)

\* the lines of l that report a classification
ProbeLines(l) == SelectSeq(l, LAMBDA x : x.kind \in { "open", "closed" })

EngineKinds == { "open", "closed", "usage", "stopped", "fault" }

\* the engine's lines of run r among the queued calls q, in the order of q
EngineLines(q, r) ==
    LET calls == SelectSeq(q, LAMBDA c : /\ c.fn = "_log_message_safe"
                                         /\ c.run = r
                                         /\ c.msg.kind \in EngineKinds)
    IN  [i \in 1..Len(calls) |-> calls[i].msg]

\* C15: the lines that report classifications are the lines of the
\* classified probes in the order of classification; only while the line
\* of the probe just classified is being written is that one line missing,
\* so when the next probe begins every Open classification has been logged,
\* and it is in open_ports from its classification on; the engine's lines
\* of the current scan appear in the log area, followed by those still
\* queued for it, in the order the engine emitted them.
C15_LinesInOrder ==
    LET want == LoggedProbes(probes, verbose)
        got == ProbeLines(log)
    IN  /\ Len(got) = IF pc \in { "log_open", "log_closed" }
                      THEN Len(want) - 1 ELSE Len(want)
        /\ \A i \in 1..Len(got) : got[i] = LineOf(want[i])
        /\ open_ports = OpenPairs(probes)
        /\ EngineLines(log_area \o tkq, run) = log
        /\ \E n \in 0..Len(log) :
              EngineLines(log_area, run) = SubSeq(log, 1, n)

\* a finished scan of two probes or more, two of its lines on display
C15_Witness ==
    /\ pc = "returned"
    /\ Len(probes) >= 2
    /\ Len(ProbeLines(log)) >= 2
    /\ Len(EngineLines(log_area, run)) >= 2


\* ---------------------------------------------------------------- C18
\* C18: whenever a scan thread is created, the previous one has ended,
\* the new one begins scan_ips from the start with an event that is not
\* set; a run takes the cancelled path only if the stop request was made
\* during that run; and once a run has returned, nothing it has done
\* changes until the next run is created.
C18_TokenPerRun ==
    [][ /\ (run' # run =>
              /\ run' = run + 1
              /\ ~ThreadAlive
              /\ ~stop_event'
              /\ pc' = "setup"
              /\ probes' = <<>>
              /\ delivered' = <<>>)
        /\ (exit' = "cancel" => stop_req' = run')
        /\ (pc = "returned" /\ run' = run =>
              /\ pc' = "returned"
              /\ exit' = exit
              /\ probes' = probes
              /\ log' = log
              /\ delivered' = delivered) ]_vars

\* the first run was cancelled, the second has finished without a stop
\* request and has probed
C18_Witness ==
    /\ run = 2
    /\ prev.exit = "cancel"
    /\ stop_req = 1
    /\ pc = "returned"
    /\ exit = "complete"
    /\ Len(probes) >= 1


\* ---------------------------------------------------------------- C20
\* four dot-separated integers, each in [0,255]
FourOctets(a) ==
    /\ Len(a) = 4
    /\ \A i \in 1..4 :
          /\ a[i] # << >>
          /\ \A j \in 1..Len(a[i]) : a[i][j] \in 0..9
          /\ DigitsVal(a[i]) \in 0..255

\* the step is a click on the button that started no scan thread
ClickWithoutThread == requested' # requested /\ run' = run

\* C20: a scan thread is created only with two address strings of four
\* integers in [0,255], two ports in [0,65535] and start port <= end
\* port; a click that creates no thread leaves pc and last_scan_results
\* (and the log area, the button and the event) as they were and queues
\* exactly one line, an error line.
C20_ValidatedStart ==
    [][ /\ (run' # run =>
              /\ FourOctets(start_ip')
              /\ FourOctets(end_ip')
              /\ start_port' \in 0..65535
              /\ end_port' \in 0..65535
              /\ start_port' <= end_port')
        /\ (ClickWithoutThread =>
              /\ pc' = pc
              /\ last_scan_results' = last_scan_results
              /\ log_area' = log_area
              /\ button' = button
              /\ stop_event' = stop_event
              /\ Len(tkq') = Len(tkq) + 1
              /\ SubSeq(tkq', 1, Len(tkq)) = tkq
              /\ tkq'[Len(tkq')].fn = "_log_message_safe"
              /\ tkq'[Len(tkq')].msg.kind = "invalid") ]_vars

\* a scan has found an open port and shown its duration, and a later
\* click was rejected: its error line is on display, the results are kept
C20_Witness ==
    /\ pc = "returned"
    /\ last_scan_results # << >>
    /\ \E i, j \in 1..Len(log_area) :
          /\ i < j
          /\ log_area[i].msg.kind = "duration"
          /\ log_area[j].msg.kind = "invalid"


\* ---------------------------------------------------------------------
\* C21: every call of the export with results writes a file whose header
\* row is IP,Port (in both copies) followed by one row per stored result
\* in the stored order, unless the dialog is cancelled or the write
\* fails; a call with empty results writes no file and only queues the
\* "no results" line
C21_ExportFormat ==
    [][file'.calls # file.calls =>
         IF last_scan_results = << >>
         THEN /\ file'.n = file.n
              /\ tkq' = Append(tkq, LogCall(NoResultsLine, run))
         ELSE file'.n # file.n =>
                /\ file'.header = << "IP", "Port" >>
                /\ Len(file'.rows) = Len(last_scan_results)
                /\ \A i \in 1..Len(last_scan_results) :
                     file'.rows[i] =
                       << last_scan_results[i][1],
                          ToDigits(last_scan_results[i][2]) >>]_vars


\* ---------------------------------------------------------------------
\* C22: with ordered address and port ranges, the k-th probe of a run
\* (k from 0, P = end_port - start_port + 1) targets the address
\* start_ip + (k div P) and the port start_port + (k mod P), so no pair
\* is probed twice; a run that ends by natural completion, that is with
\* no cancellation and no fault, has probed all the pairs.
PortCount == end_port - start_port + 1

C22_ProbeEnumeration ==
    (Ordered /\ start_port <= end_port) =>
        /\ \A k \in 0..(Len(probes) - 1) :
             /\ probes[k + 1].ip =
                  AddrStr(AddrInt(start_ip) + (k \div PortCount))
             /\ probes[k + 1].port = start_port + (k % PortCount)
        /\ (pc = "returned" /\ exit = "complete") =>
              Len(probes) = NumPairs

C22_Witness ==
    /\ pc = "returned"
    /\ exit = "complete"
    /\ stop_event = FALSE
    /\ AddrInt(start_ip) < AddrInt(end_ip)
    /\ start_port < end_port
    /\ Len(probes) = NumPairs
    /\ Len(probes) >= 4


\* ---------------------------------------------------------------------
\* C23: whenever a stop request has disabled the scan button and put the
\* stopping text on it, the button eventually is the enabled start-scan
\* button again.
C23_ButtonRestored == (button = StoppingButton) ~> (button = StartButton)


\* ---------------------------------------------------------------------
\* C24: at most one scan thread is alive at any time; a new run starts
\* only in a step that finds no scan thread alive; a click taken while a
\* scan thread is alive sets the stop token of the current run, changes
\* the button to the stopping text and starts nothing.
StopClick == button' = StoppingButton /\ button # StoppingButton

C25_OnMainThread ==
    /\ ctx.results = "main"
    /\ ctx.log_area = "main"
    /\ ctx.button = "main"


\* ---------------------------------------------------------------------
\* C26: also when calls of log_callback or of result_callback raise,
\* result_callback is called at most once in a run and no exception
\* leaves scan_ips.
C26_CallbackFaults ==
    /\ Len(delivered) <= 1
    /\ pc # "raised"


\* ---------------------------------------------------------------------
\* C27: of two runs for the same ranges against the same environment, one
\* cancelled and one not, the list the cancelled run hands over is a
\* prefix of the list the other hands over; and within a run open_ports
\* changes only by an append at its end.
IsPrefix(a, b) ==
    /\ Len(a) <= Len(b)
    /\ \A i \in 1..Len(a) : a[i] = b[i]

BothDelivered ==
    /\ run >= 2
    /\ pc = "returned"
    /\ Len(delivered) = 1
    /\ Len(prev.delivered) = 1

C27_CancelledIsPrefix ==
    /\ [](BothDelivered =>
            /\ (exit = "cancel" /\ prev.exit # "cancel")
                  => IsPrefix(delivered[1], prev.delivered[1])
            /\ (prev.exit = "cancel" /\ exit # "cancel")
                  => IsPrefix(prev.delivered[1], delivered[1]))
    /\ [][pc # "setup" /\ run' = run => IsPrefix(open_ports, open_ports')]_vars


\* ---------------------------------------------------------------------
\* C28: the cancellation line is logged only in a run in which a stop
\* check (before an address or before a port) found the event set, and
\* every such run logs it, once. A run that has passed the check before
\* the last port of the last address makes no further check: it is never
\* cancelled, and if the event is set from then on it still ends as a
\* natural completion, without the cancellation line and handing over
\* every pair classified Open.
PastLastCheck ==
    /\ Ordered
    /\ start_port <= end_port
    /\ pc \notin { "setup", "idle" }
    /\ \/ Len(probes) = NumPairs
       \/ Len(probes) = NumPairs - 1 /\ pc \in { "socket", "connect" }

C28_CancelLineIffObserved ==
    /\ [][(pc' = "stopped_log" /\ pc # "stopped_log") =>
             (is_set(stop_event) /\ pc \in { "while", "for" }
                 /\ exit' = "cancel")]_vars
    /\ [](CountKind(log, "stopped") =
             (IF exit = "cancel" /\ pc # "stopped_log" THEN 1 ELSE 0))
    /\ [](PastLastCheck => exit # "cancel")
    /\ []((PastLastCheck /\ stop_event /\ pc = "returned") =>
             /\ exit = "complete"
             /\ CountKind(log, "stopped") = 0
             /\ delivered = << OpenPairs(probes) >>)


\* ---------------------------------------------------------------------
\* C29: last_scan_results is empty from the start of a scan until that
\* scan calls result_callback, and from then on it is the list that call
\* handed over, which holds nothing but pairs the probes of that same run
\* classified Open; so what save_results_to_csv would write never holds
\* a pair of an earlier run.
C29_ResultsOfOneRun ==
    /\ delivered = << >> => last_scan_results = << >>
    /\ delivered # << >> =>
          /\ last_scan_results = delivered[Len(delivered)]
          /\ last_scan_results \in { << >>, OpenPairs(probes) }

\* a cancelled second run has handed over one pair after a first run that
\* handed over two
C29_Witness ==
    /\ run = 2
    /\ pc = "returned"
    /\ exit = "cancel"
    /\ Len(prev.delivered) = 1
    /\ Len(prev.delivered[1]) = 2
    /\ Len(delivered) = 1
    /\ Len(delivered[1]) = 1
    /\ last_scan_results = delivered[1]


\* ---------------------------------------------------------------------
\* C30: every value of the counter that is converted is at most 2^32 - 1
\* and gives an IPv4 address text; a run that reaches the address
\* 255.255.255.255 converts and probes it; once the counter is 2^32 the
\* run only leaves the loop and completes: the value is never converted,
\* nothing more is probed, no fault is raised, and the run hands over all
\* pairs classified Open.
ProbeStages ==
    { "for", "socket", "connect", "classify", "log_open", "log_closed",
      "close" }

C30_NoAddressOverflow ==
    /\ [](ip_address = << >> \/ IsAddress(ip_address))
    /\ [](pc \in ProbeStages =>
             /\ current_ip_int <= LastAddr
             /\ ip_address = AddrStr(current_ip_int))
    /\ []((probes # << >> /\ pc \in { "socket", "connect" }) =>
             Len(probes) < NumPairs)
    /\ [](current_ip_int > LastAddr =>
             /\ pc \in { "while", "final_done", "returned" }
             /\ exit \in { "none", "complete" }
             /\ end_ip = LastIp
             /\ (start_port <= end_port =>
                    /\ Len(probes) = NumPairs
                    /\ probes[Len(probes)].ip = LastIp))
    /\ [][current_ip_int > LastAddr =>
             /\ current_ip_int' = current_ip_int
             /\ ip_address' = ip_address
             /\ probes' = probes]_vars
    /\ []((current_ip_int > LastAddr /\ pc = "returned") =>
             /\ exit = "complete"
             /\ delivered = << OpenPairs(probes) >>)

\* a run over the last two addresses has probed 255.255.255.255, the
\* counter is 2^32, and the run has completed with an open port there
C30_Witness ==
    /\ pc = "returned"
    /\ exit = "complete"
    /\ start_ip # end_ip
    /\ end_ip = LastIp
    /\ current_ip_int = LastAddr + 1
    /\ ip_address = LastIp
    /\ Len(probes) >= 2
    /\ probes[Len(probes)].ip = LastIp
    /\ probes[Len(probes)].tag = "Open"

====
